---- MODULE Spec2Model ----
(***************************************************************************)
(* Model of the chat-completion relay of cursor-deepseek.  The repository  *)
(* holds five copies of the relay, one per provider variant:               *)
(*   "proxy"       src/proxy.go                     (DeepSeek)             *)
(*   "part000"     src/unnamed/part_000             (DeepSeek, older)      *)
(*   "orReader"    src/unnamed/part_001:1-683       (OpenRouter, reader    *)
(*                                                   goroutine)            *)
(*   "orHeartbeat" src/unnamed/part_001:684-1340    (OpenRouter, heartbeat *)
(*                                                   goroutine)            *)
(*   "ollama"      src/Dockerfile:46-398            (Ollama)               *)
(* One request is handled at a time (the handlers share no mutable state). *)
(* Byte strings are sequences of tokens: "\n" and " " are the white-space  *)
(* bytes, every other token stands for an indivisible run of bytes.        *)
(***************************************************************************)
EXTENDS Integers, Sequences, FiniteSets, TLC

\* ------------------------------------------------------------------ bounds
\* Non-blank upstream records one stream delivers.
MaxRecords == 2
\* Heartbeat lines one relay call writes before the clock stops.
MaxHeartbeats == 1
\* Tokens the event buffer of the reader goroutine holds.
MaxBuffer == 4
\* Messages in one chat request.
MaxMessages == 2
\* Seconds one step of the clock advances time by: less than the heartbeat
\* interval, so that time can pass without a tick.
ClockStep == 14

\* ------------------------------------------------------- program constants
\* time.NewTicker(15 * time.Second)
HeartbeatInterval == 15
StatusOK == 200
StatusBadRequest == 400
StatusUnauthorized == 401
StatusTooManyRequests == 429
StatusInternalServerError == 500
StatusBadGateway == 502

Variants == {"proxy", "part000", "orReader", "orHeartbeat", "ollama"}

\* The variants whose handleStreamingResponse is one synchronous read loop.
SyncVariants == {"proxy", "part000", "ollama"}

gpt4oModel == "gpt-4o"

\* The configured secrets (DEEPSEEK_API_KEY / OPENROUTER_API_KEY).
relayAPIKey == "sk-relay"

\* ------------------------------------------------------------ byte strings
NL == "\n"
SP == " "

IsSpace(t) == t \in {NL, SP}

RECURSIVE TrimLeft(_)
TrimLeft(s) ==
    IF s = <<>> THEN <<>>
    ELSE IF IsSpace(Head(s)) THEN TrimLeft(Tail(s)) ELSE s

RECURSIVE TrimRight(_)
TrimRight(s) ==
    IF s = <<>> THEN <<>>
    ELSE IF IsSpace(s[Len(s)]) THEN TrimRight(SubSeq(s, 1, Len(s) - 1)) ELSE s

\* bytes.TrimSpace
TrimSpace(s) == TrimRight(TrimLeft(s))

\* bytes.HasSuffix / strings.HasPrefix
HasSuffix(s, suf) ==
    /\ Len(s) >= Len(suf)
    /\ SubSeq(s, Len(s) - Len(suf) + 1, Len(s)) = suf

HasPrefix(s, pre) ==
    /\ Len(s) >= Len(pre)
    /\ SubSeq(s, 1, Len(pre)) = pre

TrimPrefix(s, pre) ==
    IF HasPrefix(s, pre) THEN SubSeq(s, Len(pre) + 1, Len(s)) ELSE s

\* The lines bufio.Reader.ReadBytes('\n') can return without an error: each
\* ends with its delimiter.
BlankLines == {<<NL>>, <<SP, NL>>}

DataLine == <<"data: ", "x", NL>>
DoneLine == <<"data: ", "[DONE]", NL>>
\* Ollama speaks newline-delimited JSON: {"message":{"content":"x"},"done":b}
JsonLine == <<"{x,done:false}", NL>>
JsonDoneLine == <<"{x,done:true}", NL>>

\* What the upstream of a variant may send besides blank lines (to the Ollama
\* copy also a line that is not JSON).
UpstreamRecords(v) ==
    IF v = "ollama" THEN {JsonLine, JsonDoneLine, DataLine}
    ELSE {DataLine, DoneLine}

\* json.Unmarshal(line, &ollamaResp): the line is a JSON object.
IsOllamaJson(line) == line \in {JsonLine, JsonDoneLine}

\* ollamaResp.Done
OllamaDone(line) == line = JsonDoneLine

HeartbeatBytes == <<": heartbeat", NL, NL>>

\* ------------------------------------------------------------------- state
VARIABLES
    variant,      \* which copy of the relay this process runs
    activeConfig, \* the package-level configuration init() fills
    hpc,          \* proxyHandler: "idle", "sent", "streaming", "done", "panic"
    req,          \* the inbound request being handled
    upReqs,       \* the requests sent upstream for it (client.Do / http.Post)
    resp,         \* what the upstream call returned
    cstatus,      \* status line written to the client (0: none yet)
    cbody,        \* body written to the client (non-streaming paths)
    cheader,      \* header of the response written to the client
    lpPc,         \* the read loop of handleStreamingResponse
    mainPc,       \* orReader: the handler goroutine waiting on its select
    hbPc,         \* orHeartbeat: the heartbeat goroutine
    cur,          \* the bytes the read loop is about to write
    buffer,       \* orReader: bytes.Buffer of the event being assembled
    upRecs,       \* non-blank lines ReadBytes has returned, in order
    out,          \* the Write calls that reached the client connection
    eof,          \* the upstream body is at end-of-stream
    ctxDone,      \* cancel() has been called on the relay's context
    clientGone,   \* the transport's disconnect signal has fired
    sigAvail,     \* the CloseNotify channel holds its (single) value
    connBroken,   \* writes to the client connection fail
    errChan,      \* orReader: "empty", "err" or "closed"
    bodyClosed,   \* resp.Body.Close() has run
    tphase,       \* seconds since the ticker last fired
    tickPending,  \* ticker.C holds a tick
    idle,         \* seconds since the upstream last delivered a record
    obs           \* history of the run, read only by the properties

frontVars ==
    <<variant, activeConfig, req, upReqs, resp, cstatus, cbody, cheader>>
connVars == <<clientGone, sigAvail, connBroken>>
clockVars == <<tphase, tickPending, idle>>
vars == <<variant, activeConfig, hpc, req, upReqs, resp, cstatus, cbody, cheader, lpPc,
          mainPc, hbPc,
          cur, buffer, upRecs, out, eof, ctxDone, clientGone, sigAvail,
          connBroken, errChan, bodyClosed, tphase, tickPending, idle, obs>>

NoReq == [kind |-> "none"]
NoResp == [kind |-> "none"]
NoBody == [form |-> "none"]

\* ---------------------------------------------------------------- requests
\* Authorization header values: absent, the configured key, another key, and
\* a non-Bearer scheme.
AuthHeaders ==
    {<<>>, <<"Bearer ", relayAPIKey>>, <<"Bearer ", "sk-other">>,
     <<"Basic ", relayAPIKey>>}

\* Content-Type header values: absent, the JSON type, another type.
jsonType == <<"application/json">>
ContentTypes == {<<>>, jsonType, <<"text/plain">>}

Models == {gpt4oModel, "gpt-3.5", ""}

\* ------------------------------------------------------------ chat payload
\* Message.Role values a client sends.
Roles == {"user", "assistant", "function", "tool"}

\* ToolCall values: a well-formed one, one whose function name is empty, and
\* one whose type is not "function".
callF == [id |-> "c1", type |-> "function", name |-> "f", arguments |-> "{}"]
callNoName == [id |-> "c2", type |-> "function", name |-> "", arguments |-> "{}"]
callOddType == [id |-> "c3", type |-> "", name |-> "g", arguments |-> "{}"]

ToolCallLists == {<<>>, <<callF>>, <<callNoName, callF>>, <<callOddType>>}

\* Message values: tool_call_id on the answers to a tool call (roles "tool"
\* and "function"), name on the messages of a function.
Messages ==
    {[role |-> ro, content |-> "hi", tool_calls |-> tcs,
      tool_call_id |-> IF ro \in {"tool", "function"} THEN "c1" ELSE "",
      name |-> IF ro = "function" THEN "f" ELSE ""] :
        ro \in Roles, tcs \in ToolCallLists}

MessageLists == UNION {[1..n -> Messages] : n \in 0..MaxMessages}

\* The payload of a plain chat request: one user message.
PlainMessages ==
    <<[role |-> "user", content |-> "hi", tool_calls |-> <<>>,
       tool_call_id |-> "", name |-> ""]>>

convertMessagesRebuilding(messages) ==
    [i \in 1..Len(messages) |->
        [role |-> IF messages[i].role = "function" THEN "tool"
                  ELSE messages[i].role,
         content |-> messages[i].content,
         tool_calls |->
            [j \in 1..Len(messages[i].tool_calls) |->
                [messages[i].tool_calls[j] EXCEPT !.type = "function"]],
         tool_call_id |-> "",
         name |-> ""]]

convertMessagesSwappingRoles(messages) ==
    [i \in 1..Len(messages) |->
        [messages[i] EXCEPT !.role = IF @ = "function" THEN "tool"
                                     ELSE IF @ = "tool" THEN "function"
                                     ELSE @]]

\* convertMessages: every message is copied (converted[i] = msg) into a new
\* list; in the copy the tool calls of an assistant
\* message are rebuilt with type "function"; role "function" becomes "tool".
convertMessages(messages) ==
    [i \in 1..Len(messages) |->
        LET msg == messages[i]
            calls ==
                IF msg.role = "assistant" /\ Len(msg.tool_calls) > 0
                THEN [j \in 1..Len(msg.tool_calls) |->
                        [id |-> msg.tool_calls[j].id,
                         type |-> "function",
                         name |-> msg.tool_calls[j].name,
                         arguments |-> msg.tool_calls[j].arguments]]
                ELSE msg.tool_calls
        IN [msg EXCEPT !.tool_calls = calls,
                       !.role = IF @ = "function" THEN "tool" ELSE @]]

\* Function and Tool values.
fnF == [name |-> "f"]
fnG == [name |-> "g"]
toolG == [type |-> "function", function |-> fnG]

FunctionLists == {<<>>, <<fnF>>, <<fnG, fnF>>}
ToolLists == {<<>>, <<toolG>>}

\* tool_choice as json.Unmarshal leaves it in ChatRequest.ToolChoice
\* (interface{}): the key absent, null, a string, an object (value: its "type"
\* member, "" when it has none), a number, a list.
NoChoice == [kind |-> "absent", value |-> ""]
StringChoice(s) == [kind |-> "string", value |-> s]
ToolChoices ==
    {NoChoice, [kind |-> "null", value |-> ""],
     StringChoice("auto"), StringChoice("none"), StringChoice("required"),
     [kind |-> "object", value |-> "function"],
     [kind |-> "object", value |-> "retrieval"],
     [kind |-> "object", value |-> ""],
     [kind |-> "number", value |-> "1"],
     [kind |-> "list", value |-> "auto"]}

\* choice == nil
IsNil(choice) == choice.kind \in {"absent", "null"}

\* convertToolChoice returning every string as it is.
convertToolChoiceAnyString(choice) ==
    IF IsNil(choice) THEN ""
    ELSE IF choice.kind = "string" THEN choice.value
    ELSE IF choice.kind = "object" /\ choice.value = "function"
    THEN "auto"
    ELSE ""

\* convertToolChoice: the Go string it returns ("": no tool_choice).
convertToolChoice(choice) ==
    IF IsNil(choice) THEN ""
    ELSE IF choice.kind = "string" /\ choice.value \in {"auto", "none"}
    THEN choice.value
    ELSE IF choice.kind = "object" /\ choice.value = "function"
    THEN "auto"
    ELSE ""

\* temperature and max_tokens of a request, as decimal numerals: the member
\* absent (a nil pointer after decoding), zero, another value.
Absent == "absent"
Temperatures == {Absent, "0", "0.5"}
TokenLimits == {Absent, "0", "100"}

\* POST /v1/chat/completions with a body that json.Unmarshal accepts
\* (decodable) or not, carrying a plain payload.
Requests ==
    [kind : {"chat"}, auth : AuthHeaders, ctype : {jsonType},
     encoding : {<<>>}, decodable : BOOLEAN,
     model : Models, stream : BOOLEAN, messages : {PlainMessages},
     tools : {<<>>}, functions : {<<>>}, tool_choice : {NoChoice},
     temperature : {Absent}, max_tokens : {Absent}]

\* The model names a client can learn from GET /v1/models of some variant,
\* and one no variant lists.
AliasModels ==
    {gpt4oModel, "deepseek-chat", "deepseek/deepseek-chat", "llama2",
     "gpt-3.5"}

\* Requests with a body json.Unmarshal accepts: one for each model name, one
\* for each combination of temperature and max_tokens, one for each list of
\* messages, one for each combination of tools, functions and tool_choice,
\* and one for each combination of Authorization, Content-Type and
\* Content-Encoding.
PayloadRequests ==
    [kind : {"chat"}, auth : {<<"Bearer ", relayAPIKey>>}, ctype : {jsonType},
     encoding : {<<>>},
     decodable : {TRUE}, model : AliasModels, stream : BOOLEAN,
     messages : {PlainMessages},
     tools : {<<>>}, functions : {<<>>}, tool_choice : {NoChoice},
     temperature : {Absent}, max_tokens : {Absent}]
    \cup
    [kind : {"chat"}, auth : {<<"Bearer ", relayAPIKey>>}, ctype : {jsonType},
     encoding : {<<>>},
     decodable : {TRUE}, model : {gpt4oModel}, stream : BOOLEAN,
     messages : {PlainMessages},
     tools : {<<>>}, functions : {<<>>}, tool_choice : {NoChoice},
     temperature : Temperatures, max_tokens : TokenLimits]
    \cup
    [kind : {"chat"}, auth : {<<"Bearer ", relayAPIKey>>}, ctype : {jsonType},
     encoding : {<<>>},
     decodable : {TRUE}, model : {gpt4oModel}, stream : BOOLEAN,
     messages : MessageLists,
     tools : {<<>>}, functions : {<<>>}, tool_choice : {NoChoice},
     temperature : {Absent}, max_tokens : {Absent}]
    \cup
    [kind : {"chat"}, auth : {<<"Bearer ", relayAPIKey>>}, ctype : {jsonType},
     encoding : {<<>>},
     decodable : {TRUE}, model : {gpt4oModel}, stream : BOOLEAN,
     messages : {PlainMessages},
     tools : ToolLists, functions : FunctionLists, tool_choice : ToolChoices,
     temperature : {Absent}, max_tokens : {Absent}]
    \cup
    [kind : {"chat"}, auth : AuthHeaders, ctype : ContentTypes,
     encoding : {<<>>, <<"gzip">>},
     decodable : {TRUE}, model : {gpt4oModel}, stream : BOOLEAN,
     messages : {PlainMessages},
     tools : {<<>>}, functions : {<<>>}, tool_choice : {NoChoice},
     temperature : {Absent}, max_tokens : {Absent}]

\* Upstream bodies: not JSON; a JSON object without a model field (the shape
\* of an error object); a completion envelope.
\* tool_calls: the tool calls of the envelope's choice message.
Bodies ==
    {[json |-> FALSE, model |-> "absent", tool_calls |-> <<>>],
     [json |-> TRUE, model |-> "absent", tool_calls |-> <<>>],
     [json |-> TRUE, model |-> "deepseek-chat", tool_calls |-> <<>>],
     [json |-> TRUE, model |-> "deepseek-chat",
      tool_calls |-> <<callNoName, callF>>]}

\* The body of a response whose bytes the streaming relay reads line by line.
StreamBody == [json |-> FALSE, model |-> "stream", tool_calls |-> <<>>]

\* ------------------------------------------------------------ proxyHandler
\* The variants that validate the inbound API key.
AuthVariants == {"orReader", "orHeartbeat"}

\* strings.HasPrefix(authHeader, "Bearer ") and the key comparison.
AuthOK(r) ==
    /\ HasPrefix(r.auth, <<"Bearer ">>)
    /\ TrimPrefix(r.auth, <<"Bearer ">>) = <<relayAPIKey>>

\* The variants that reject every model but gpt-4o.
ModelCheckVariants == {"proxy", "part000", "orHeartbeat"}

\* activeConfig.model of the Ollama variant (defaultModel).
ollamaModel == "llama2"

\* The model sent upstream.
UpstreamModel(v, r) ==
    CASE v \in {"proxy", "part000"} -> "deepseek-chat"
      [] v \in {"orReader", "orHeartbeat"} -> "deepseek/deepseek-chat"
      [] OTHER -> IF r.model = "" THEN activeConfig.model ELSE r.model

\* What init() leaves in the package-level variables and constants the
\* handlers read: the upstream credential (none in the Ollama copy), the
\* upstream endpoint and the upstream model.
StartupConfig(v) ==
    [key |-> IF v = "ollama" THEN "" ELSE relayAPIKey,
     endpoint |-> CASE v \in {"proxy", "part000"} -> "https://api.deepseek.com"
                    [] v \in {"orReader", "orHeartbeat"} ->
                          "https://openrouter.ai/api/v1"
                    [] OTHER -> "http://localhost:11434/api",
     model |-> CASE v \in {"proxy", "part000"} -> "deepseek-chat"
                 [] v \in {"orReader", "orHeartbeat"} ->
                       "deepseek/deepseek-chat"
                 [] OTHER -> ollamaModel]

ConfigAfterAdoptingModel(cfg, r) ==
    IF r.decodable /\ r.model # "" THEN [cfg EXCEPT !.model = r.model] ELSE cfg

\* The configuration after proxyHandler has handled r: the handlers read the
\* package-level variables and assign to none of them (the Ollama copy
\* copies activeConfig.model into its own chatReq).
ConfigAfter(cfg, r) == cfg

\* The status of the local error response the handler answers r with before
\* anything is sent upstream; 0 when r is forwarded.
LocalReject(v, r) ==
    IF v \in AuthVariants /\ ~AuthOK(r) THEN StatusUnauthorized
    ELSE IF ~r.decodable THEN StatusBadRequest
    ELSE IF v \in ModelCheckVariants /\ r.model # gpt4oModel THEN StatusBadRequest
    ELSE 0

\* The variants that build the upstream request through convertMessages; the
\* heartbeat copy marshals chatReq itself and the Ollama copy passes
\* chatReq.Messages on.
ConvertVariants == {"proxy", "part000", "orReader"}

\* The first OpenRouter copy fills in a temperature and a max_tokens the
\* client did not send.
DefaultVariants == {"orReader"}
defaultTemp == "0.7"
defaultMaxTokens == "4096"

\* FillDefault filling in the default in every variant.
FillDefaultEverywhere(v, x, d) == IF x = Absent THEN d ELSE x

\* The value the handler stores in the float64 / int field of the upstream
\* request struct: the client's, else the default or the zero value.
FillDefault(v, x, d) ==
    IF x # Absent THEN x
    ELSE IF v \in DefaultVariants THEN d ELSE "0"

\* json.Marshal of a number under omitempty: zero is left out.
omitempty(x) == IF x = "0" THEN Absent ELSE x

\* "temperature" / "max_tokens" of the upstream body; the marshalled chatReq
\* of the heartbeat copy keeps the client's pointer.
UpstreamNumber(v, x, d) ==
    IF v = "orHeartbeat" THEN x ELSE omitempty(FillDefault(v, x, d))

\* The request has tools, or functions to make tools of.
HasTools(r) == Len(r.tools) > 0 \/ Len(r.functions) > 0

\* "tools" of the upstream body: chatReq.Tools when there are any, else one
\* tool for each of chatReq.Functions; the Ollama request has no such field.
UpstreamTools(v, r) ==
    CASE v \in ConvertVariants ->
            IF Len(r.tools) > 0 THEN r.tools
            ELSE [i \in 1..Len(r.functions) |->
                    [type |-> "function", function |-> r.functions[i]]]
      [] v = "orHeartbeat" -> r.tools
      [] OTHER -> <<>>

\* "functions" of the upstream body: only the marshalled chatReq has it.
UpstreamFunctions(v, r) ==
    IF v = "orHeartbeat" THEN r.functions ELSE <<>>

\* UpstreamToolChoice setting the converted choice on every request.
UpstreamToolChoiceAlways(v, r) ==
    CASE v \in ConvertVariants ->
            IF convertToolChoice(r.tool_choice) # ""
            THEN StringChoice(convertToolChoice(r.tool_choice))
            ELSE NoChoice
      [] v = "orHeartbeat" ->
            IF IsNil(r.tool_choice) THEN NoChoice ELSE r.tool_choice
      [] OTHER -> NoChoice

\* "tool_choice" of the upstream body: the converted choice, set only on a
\* request with tools and dropped by omitempty when ""; chatReq.ToolChoice
\* itself in the marshalled chatReq unless nil; never in the Ollama request.
UpstreamToolChoice(v, r) ==
    CASE v \in ConvertVariants ->
            IF HasTools(r) /\ convertToolChoice(r.tool_choice) # ""
            THEN StringChoice(convertToolChoice(r.tool_choice))
            ELSE NoChoice
      [] v = "orHeartbeat" ->
            IF IsNil(r.tool_choice) THEN NoChoice ELSE r.tool_choice
      [] OTHER -> NoChoice

\* http.Header: the values of each header, in the order they were added.
HeaderNames ==
    {"Authorization", "Content-Type", "Content-Encoding", "Accept",
     "Content-Length", "Connection"}
NoHeader == [h \in HeaderNames |-> <<>>]

\* r.Header of the inbound request: a POST carries the length of its body and
\* the connection option of its client.
ClientHeader(r) ==
    [h \in HeaderNames |->
        LET v == CASE h = "Authorization" -> r.auth
                   [] h = "Content-Type" -> r.ctype
                   [] h = "Content-Encoding" -> r.encoding
                   [] h = "Content-Length" -> <<"inbound-length">>
                   [] h = "Connection" -> <<"inbound-option">>
                   [] OTHER -> <<>>
        IN IF v = <<>> THEN <<>> ELSE <<v>>]

skipHeaders ==
    {"Content-Length", "Content-Encoding", "Transfer-Encoding", "Connection"}

\* copyHeaders: dst.Add(k, v) for every value of every header not skipped.
copyHeaders(dst, src) ==
    [h \in HeaderNames |->
        IF h \in skipHeaders THEN dst[h] ELSE dst[h] \o src[h]]

\* Header.Add in the place of Header.Set.
HeaderAdd(hd, name, value) == [hd EXCEPT ![name] = Append(hd[name], value)]

\* Header.Set: value replaces every value of name.
HeaderSet(hd, name, value) == [hd EXCEPT ![name] = <<value>>]

\* The header of the upstream request: the client's, copied, under the relay's
\* Authorization and Content-Type (and Accept on a streaming request);
\* http.Post of the Ollama copy sets the Content-Type only.
UpstreamHeader(v, r) ==
    IF v = "ollama"
    THEN HeaderSet(NoHeader, "Content-Type", jsonType)
    ELSE LET copied == copyHeaders(NoHeader, ClientHeader(r))
             auth == HeaderSet(copied, "Authorization",
                               <<"Bearer ", relayAPIKey>>)
             typed == HeaderSet(auth, "Content-Type", jsonType)
         IN IF r.stream
            THEN HeaderSet(typed, "Accept", <<"text/event-stream">>)
            ELSE typed

\* resp.Header of an upstream response.
PlainUpHeader == HeaderSet(NoHeader, "Content-Type", jsonType)
EncodedUpHeader ==
    [PlainUpHeader EXCEPT !["Content-Encoding"] = <<<<"br">>>>,
                          !["Content-Length"] = <<<<"upstream-length">>>>,
                          !["Connection"] = <<<<"upstream-option">>>>]

\* What client.Do / http.Post returns.
UpstreamResults ==
    {[kind |-> "unreachable"]}
        \cup [kind : {"resp"}, status : {StatusOK, StatusTooManyRequests},
              body : Bodies \cup {StreamBody}, header : {PlainUpHeader}]

\* The same responses under a header with an encoding, a length and a
\* connection option.
EncodedResults ==
    [kind : {"resp"}, status : {StatusOK, StatusTooManyRequests},
     body : Bodies \cup {StreamBody}, header : {EncodedUpHeader}]

\* The header http.Error writes.
LocalHeader == HeaderSet(NoHeader, "Content-Type", <<"text/plain">>)

\* The header of a forwarded error response: w.Header()[k] = v for every
\* upstream header, then the Content-Type.
PassthroughHeader(u) == HeaderSet(u.header, "Content-Type", jsonType)

\* The header handleStreamingResponse writes.
StreamHeader ==
    HeaderSet(HeaderSet(NoHeader, "Content-Type", <<"text/event-stream">>),
              "Connection", <<"keep-alive">>)

\* The header handleRegularResponse writes with a translated body: the
\* upstream's through copyHeaders under its own type and length (proxy.go),
\* its own Content-Type alone elsewhere.
RegularHeader(v, u) ==
    IF v = "proxy"
    THEN HeaderSet(HeaderSet(copyHeaders(NoHeader, u.header), "Content-Type",
                             <<"application/json; charset=utf-8">>),
                   "Content-Length", <<"len(respBody)">>)
    ELSE HeaderSet(NoHeader, "Content-Type", jsonType)

\* The request client.Do / http.Post sends.
UpstreamRequest(v, r) ==
    [model |-> UpstreamModel(v, r),
     stream |-> r.stream,
     messages |->
        IF v \in ConvertVariants THEN convertMessages(r.messages)
        ELSE r.messages,
     tools |-> UpstreamTools(v, r),
     functions |-> UpstreamFunctions(v, r),
     tool_choice |-> UpstreamToolChoice(v, r),
     temperature |-> UpstreamNumber(v, r.temperature, defaultTemp),
     max_tokens |-> UpstreamNumber(v, r.max_tokens, defaultMaxTokens),
     header |-> UpstreamHeader(v, r)]

\* The history of one relay call:
\*   readAfterEof       ReadBytes was called again after it had returned io.EOF
\*   dataAfterGone      data writes that reached the client after the
\*                      disconnect signal fired (counted up to 2)
\*   waitedAfterGone    time passed with the signal fired and the relay not
\*                      returned
\*   gapLong            the record last read came after more than
\*                      HeartbeatInterval seconds of upstream silence
\*   hbSinceData        a heartbeat was written since the last data write
\*   silentGapWrite     a data write followed such a gap with no heartbeat
\*                      in between
\*   dataInInterval     a data write happened since the last heartbeat write
\*   hbAfterData        a heartbeat was written with dataInInterval set
\*   ticksFired         how often the ticker fired
\*   hbFailed           a heartbeat Write returned an error
\*   readsAfterHbFail   ReadBytes calls that returned after that (up to 2)
\*   dataAfterHbFail    a data write reached the client after that
\*   sentinelSeen       ReadBytes returned the terminal sentinel
\*   readAfterSentinel  ReadBytes returned again after that
\*   recordAfterSentinel  ... and returned a non-blank line
\*   overlap            a Write began while the other goroutine was between
\*                      its Write and the end of its Flush
\*   writeFailed        a data Write of the read loop returned an error
\*   readAfterWriteFail ReadBytes was called after that
NoObs ==
    [readAfterEof |-> FALSE,
     dataAfterGone |-> 0, waitedAfterGone |-> FALSE,
     gapLong |-> FALSE, hbSinceData |-> FALSE, silentGapWrite |-> FALSE,
     dataInInterval |-> FALSE, hbAfterData |-> FALSE, ticksFired |-> 0,
     hbFailed |-> FALSE, readsAfterHbFail |-> 0, dataAfterHbFail |-> FALSE,
     sentinelSeen |-> FALSE, readAfterSentinel |-> FALSE,
     recordAfterSentinel |-> FALSE,
     overlap |-> FALSE,
     writeFailed |-> FALSE, readAfterWriteFail |-> FALSE,
     held |-> 0, readWhileHolding |-> FALSE,
     tail |-> <<>>]

StreamIdle ==
    /\ lpPc = "none" /\ mainPc = "none" /\ hbPc = "none"
    /\ cur = <<>> /\ buffer = <<>> /\ upRecs = <<>> /\ out = <<>>
    /\ eof = FALSE /\ ctxDone = FALSE
    /\ clientGone = FALSE /\ sigAvail = FALSE /\ connBroken = FALSE
    /\ errChan = "empty" /\ bodyClosed = FALSE
    /\ tphase = 0 /\ tickPending = FALSE /\ idle = 0
    /\ obs = NoObs

streamVars == <<lpPc, mainPc, hbPc, cur, buffer, upRecs, out, eof, ctxDone,
                clientGone, sigAvail, connBroken, errChan, bodyClosed,
                tphase, tickPending, idle, obs>>

Init ==
    /\ variant \in Variants
    /\ activeConfig = StartupConfig(variant)
    /\ hpc = "idle"
    /\ req = NoReq /\ upReqs = <<>> /\ resp = NoResp
    /\ cstatus = 0 /\ cbody = NoBody /\ cheader = NoHeader
    /\ StreamIdle

\* proxyHandler / handleChatCompletions up to the upstream call.
ProxyHandler(r) ==
    /\ hpc = "idle"
    /\ req' = r
    /\ LET st == LocalReject(variant, r) IN
         IF st # 0
         THEN /\ hpc' = "done"
              /\ cstatus' = st
              /\ cbody' = [form |-> "local"]
              /\ cheader' = LocalHeader
              /\ upReqs' = upReqs
         ELSE /\ hpc' = "sent"
              /\ upReqs' = Append(upReqs, UpstreamRequest(variant, r))
              /\ UNCHANGED <<cstatus, cbody, cheader>>
    /\ activeConfig' = ConfigAfter(activeConfig, r)
    /\ UNCHANGED <<variant, resp>>
    /\ UNCHANGED streamVars

\* --------------------------------------------------- after the upstream call
\* The variants whose handler forwards an upstream status >= 400 verbatim
\* (the Ollama copy never looks at the status).
PassthroughVariants == {"proxy", "part000", "orReader", "orHeartbeat"}

\* http.Error(w, ..., 502) on a transport failure; 500 in the Ollama copy.
UnreachableStatus(v) ==
    IF v = "ollama" THEN StatusInternalServerError ELSE StatusBadGateway

\* The tool calls whose function name is not empty.
Named(tc) == tc.name # ""

\* The tool calls of the choice message handleRegularResponse writes: the
\* upstream's unchanged (part_000); each with type "function" (first
\* OpenRouter copy); the upstream's followed by the named ones appended to
\* them (heartbeat copy); none (Ollama copy).
ResponseToolCalls(v, calls) ==
    CASE v = "part000" -> calls
      [] v = "orReader" ->
            [j \in 1..Len(calls) |-> [calls[j] EXCEPT !.type = "function"]]
      [] v = "orHeartbeat" -> calls \o SelectSeq(calls, Named)
      [] OTHER -> <<>>

\* handleRegularResponse: [status, body, header, panic].
HandleRegular(v, u) ==
    CASE v = "proxy" ->
            [status |-> u.status, body |-> [form |-> "raw", body |-> u.body],
             header |-> RegularHeader(v, u), panic |-> FALSE]
      [] v \in {"part000", "orHeartbeat"} ->
            IF ~u.body.json
            THEN [status |-> StatusInternalServerError, body |-> NoBody,
                  header |-> NoHeader, panic |-> FALSE]
            ELSE [status |-> u.status,
                  body |-> [form |-> "json", model |-> gpt4oModel,
                            tool_calls |->
                                ResponseToolCalls(v, u.body.tool_calls)],
                  header |-> RegularHeader(v, u), panic |-> FALSE]
      [] v = "orReader" ->
            IF ~u.body.json
            THEN [status |-> StatusInternalServerError, body |-> NoBody,
                  header |-> NoHeader, panic |-> FALSE]
            ELSE IF u.body.model = "absent"
            THEN [status |-> 0, body |-> NoBody, header |-> NoHeader,
                  panic |-> TRUE]
            ELSE [status |-> u.status,
                  body |-> [form |-> "json", model |-> u.body.model,
                            tool_calls |->
                                ResponseToolCalls(v, u.body.tool_calls)],
                  header |-> RegularHeader(v, u), panic |-> FALSE]
      [] OTHER ->
            IF ~u.body.json
            THEN [status |-> StatusInternalServerError,
                  body |-> [form |-> "local"], header |-> LocalHeader,
                  panic |-> FALSE]
            ELSE [status |-> StatusOK,
                  body |-> [form |-> "json", model |-> ollamaModel,
                            tool_calls |->
                                ResponseToolCalls(v, u.body.tool_calls)],
                  header |-> RegularHeader(v, u), panic |-> FALSE]

\* The variants whose relay owns a cancellable context and listens to
\* CloseNotify.
CtxVariants == {"orReader", "orHeartbeat"}

\* handleStreamingResponse up to its loop: headers written, goroutines started.
\* It is passed w and resp only: chatReq is out of scope from here on.
\* The variants whose handleStreamingResponse asserts w.(http.Flusher) and
\* answers http.Error(w, "Streaming unsupported", 500) when the assertion
\* fails: after WriteHeader(resp.StatusCode) in proxy.go, before any write in
\* the Ollama copy.
FlusherVariants == {"proxy", "ollama"}

FlusherAssertFails == FALSE

\* w.(http.Flusher): the ResponseWriter the http.Server of main() (HTTP/1.1,
\* and HTTP/2 through http2.ConfigureServer) hands to proxyHandler implements
\* http.Flusher.
FlusherOK == TRUE

StartStreaming(u) ==
    /\ u.body = StreamBody
    /\ IF variant \in FlusherVariants /\ ~FlusherOK
       THEN /\ hpc' = "done"
            /\ req' = req
            /\ cstatus' = (IF variant = "ollama"
                            THEN StatusInternalServerError ELSE u.status)
            /\ cbody' = [form |-> "local"]
            /\ cheader' = (IF variant = "ollama"
                            THEN HeaderSet(StreamHeader, "Content-Type",
                                           <<"text/plain">>)
                            ELSE StreamHeader)
            /\ bodyClosed' = TRUE
            /\ UNCHANGED <<lpPc, mainPc, hbPc, cur, buffer, upRecs, out, eof,
                           ctxDone, clientGone, sigAvail, connBroken, errChan,
                           tphase, tickPending, idle, obs>>
       ELSE /\ hpc' = "streaming"
            /\ req' = NoReq
            /\ cstatus' = (IF variant = "ollama" THEN StatusOK ELSE u.status)
            /\ cbody' = cbody
            /\ cheader' = StreamHeader
            /\ lpPc' = (IF variant \in CtxVariants THEN "select" ELSE "read")
            /\ mainPc' = (IF variant = "orReader" THEN "wait" ELSE "none")
            /\ hbPc' = (IF variant = "orHeartbeat" THEN "wait" ELSE "none")
            /\ UNCHANGED <<cur, buffer, upRecs, out, eof, ctxDone, clientGone,
                           sigAvail, connBroken, errChan, bodyClosed, tphase,
                           tickPending, idle, obs>>

\* client.Do returns u; the handler runs on to its return, or into the
\* streaming relay.
ClientDoReturns(u) ==
    /\ hpc = "sent"
    /\ resp' = u
    /\ UNCHANGED <<variant, activeConfig, upReqs>>
    /\ IF u.kind = "unreachable"
       THEN /\ hpc' = "done"
            /\ cstatus' = UnreachableStatus(variant)
            /\ cbody' = [form |-> "local"]
            /\ cheader' = LocalHeader
            /\ req' = req
            /\ UNCHANGED streamVars
       ELSE IF u.status >= StatusBadRequest /\ variant \in PassthroughVariants
       THEN /\ u.body # StreamBody
            /\ req' = req
            /\ hpc' = "done"
            /\ cstatus' = u.status
            /\ cbody' = [form |-> "raw", body |-> u.body]
            /\ cheader' = PassthroughHeader(u)
            /\ bodyClosed' = TRUE
            /\ UNCHANGED <<lpPc, mainPc, hbPc, cur, buffer, upRecs, out, eof,
                           ctxDone, clientGone, sigAvail, connBroken, errChan,
                           tphase, tickPending, idle, obs>>
       ELSE IF req.stream
       THEN StartStreaming(u)
       ELSE LET h == HandleRegular(variant, u) IN
            /\ u.body # StreamBody
            /\ req' = req
            /\ hpc' = (IF h.panic THEN "panic" ELSE "done")
            /\ cstatus' = h.status
            /\ cbody' = h.body
            /\ cheader' = h.header
            /\ bodyClosed' = TRUE
            /\ UNCHANGED <<lpPc, mainPc, hbPc, cur, buffer, upRecs, out, eof,
                           ctxDone, clientGone, sigAvail, connBroken, errChan,
                           tphase, tickPending, idle, obs>>

\* -------------------------------------------------- handleStreamingResponse
\* One Write call that reached the client connection.  torn: the call ran
\* while another goroutine was inside its own Write/Flush on the same
\* ResponseWriter, so the bytes on the wire are not the bytes passed.
Entry(k, b, t) == [kind |-> k, bytes |-> b, torn |-> t]

IsData(e) == e.kind = "data"
IsHb(e) == e.kind = "hb"
DataEntries(o) == SelectSeq(o, IsData)
HbCount(o) == Len(SelectSeq(o, IsHb))

\* The bytes of a last record the upstream sent without its newline.
Unterminated(v) ==
    IF v = "ollama" THEN <<"{x,done:true}">> ELSE <<"data: ", "x">>

\* What ReadBytes('\n') can return now: a line with a nil error, io.EOF
\* (with the bytes read before the end, if any), or another error.  A closed
\* body only yields errors; a body at end-of-stream only io.EOF.
ReadOutcomes ==
    IF bodyClosed THEN {[err |-> "other", line |-> <<>>]}
    ELSE IF eof THEN {[err |-> "EOF", line |-> <<>>]}
    ELSE {[err |-> "EOF", line |-> <<>>], [err |-> "other", line |-> <<>>],
          [err |-> "EOF", line |-> Unterminated(variant)]}
         \cup {[err |-> "nil", line |-> l] : l \in
                  {b \in BlankLines : Len(buffer) + Len(b) <= MaxBuffer}}
         \cup {[err |-> "nil", line |-> l] : l \in
                  {r \in UpstreamRecords(variant) :
                      /\ Len(upRecs) < MaxRecords
                      /\ Len(buffer) + Len(r) <= MaxBuffer}}

IsBlank(line) == TrimSpace(line) = <<>>

\* The terminal sentinel of the variant's upstream protocol.
IsSentinel(v, line) ==
    IF v = "ollama" THEN OllamaDone(line)
    ELSE TrimSpace(line) = <<"data: ", "[DONE]">>

\* The chunk the Ollama copy marshals for a decoded line.
OllamaChunk(line) ==
    <<"data: ", IF OllamaDone(line) THEN "chunk(x,stop)" ELSE "chunk(x)",
      NL, NL>>

\* The bytes the loop passes to Write for a non-blank line, per variant.
WriteBytes(v, line) ==
    CASE v = "proxy" -> TrimSpace(line) \o <<NL, NL>>
      [] v = "ollama" -> OllamaChunk(line)
      [] OTHER -> line

\* Whether the loop forwards the line at all.
Forwards(v, line) ==
    IF v = "ollama" THEN IsOllamaJson(line) ELSE ~IsBlank(line)

\* The handler goroutine leaves handleStreamingResponse and proxyHandler:
\* the deferred cancel() and resp.Body.Close() run.
HandlerReturns ==
    /\ hpc' = "done"
    /\ bodyClosed' = TRUE
    /\ ctxDone' = (IF variant \in CtxVariants THEN TRUE ELSE ctxDone)

\* The pc the loop continues at (`continue`).
LoopTop == IF variant \in CtxVariants THEN "select" ELSE "read"

\* orHeartbeat: the select at the top of the read loop.
LoopSelect ==
    /\ variant = "orHeartbeat"
    /\ lpPc = "select"
    /\ \/ /\ ctxDone
          /\ lpPc' = "closed"
          /\ HandlerReturns
          /\ UNCHANGED sigAvail
       \/ /\ sigAvail
          /\ sigAvail' = FALSE
          /\ lpPc' = "closed"
          /\ HandlerReturns
       \/ /\ ~ctxDone /\ ~sigAvail
          /\ lpPc' = "read"
          /\ UNCHANGED <<hpc, bodyClosed, ctxDone, sigAvail>>
    /\ UNCHANGED <<frontVars, mainPc, hbPc, cur, buffer, upRecs, out, eof,
                   clientGone, connBroken, errChan, clockVars, obs>>

\* orReader: the select at the top of the reader goroutine's loop.
ReaderSelect ==
    /\ variant = "orReader"
    /\ lpPc = "select"
    /\ \/ /\ ctxDone
          /\ lpPc' = "exit"
          /\ errChan' = (IF errChan = "empty" THEN "closed" ELSE errChan)
          /\ UNCHANGED <<sigAvail, ctxDone, buffer>>
       \/ /\ sigAvail
          /\ sigAvail' = FALSE
          /\ ctxDone' = TRUE
          /\ lpPc' = "exit"
          /\ errChan' = (IF errChan = "empty" THEN "closed" ELSE errChan)
          /\ UNCHANGED buffer
       \/ /\ ~ctxDone /\ ~sigAvail
          /\ lpPc' = "read"
          /\ buffer' = <<>>
          /\ UNCHANGED <<sigAvail, ctxDone, errChan>>
    /\ UNCHANGED <<frontVars, hpc, mainPc, hbPc, cur, upRecs, out, eof,
                   clientGone, connBroken, bodyClosed, clockVars, obs>>

\* The history a read leaves, whatever the variant does with its result.
\* The relay keeps the line it read for a later Write: the line it forwards,
\* and in the event-assembling copy every non-blank line it appends to its
\* buffer.
Holds(v, line) == IF v = "orReader" THEN ~IsBlank(line) ELSE Forwards(v, line)

\* The bytes the relay has read and not passed to Write when ReadBytes
\* returns line: the line, behind the buffer of the event-assembling copy.
Pending(line) == IF variant = "orReader" THEN buffer \o line ELSE line

ObsRead(o) ==
    [obs EXCEPT
        !.readAfterEof = @ \/ eof,
        !.sentinelSeen = @ \/ (o.err = "nil" /\ IsSentinel(variant, o.line)),
        !.readAfterSentinel = @ \/ obs.sentinelSeen,
        !.recordAfterSentinel =
            @ \/ (obs.sentinelSeen /\ o.err = "nil" /\ ~IsBlank(o.line)),
        !.readsAfterHbFail =
            IF obs.hbFailed /\ @ < 2 THEN @ + 1 ELSE @,
        !.readAfterWriteFail = @ \/ obs.writeFailed,
        !.held = IF o.err = "nil" /\ Holds(variant, o.line) /\ @ < 2
                 THEN @ + 1 ELSE @,
        !.readWhileHolding = @ \/ obs.held > 0,
        !.tail = IF o.err = "EOF" THEN Pending(o.line) ELSE <<>>,
        !.gapLong =
            IF o.err = "nil" /\ ~IsBlank(o.line)
            THEN idle > HeartbeatInterval ELSE @]

\* reader.ReadBytes('\n') returns o and the loop body runs up to its Write.
LoopRead(o) ==
    /\ lpPc = "read"
    /\ o \in ReadOutcomes
    /\ obs' = ObsRead(o)
    /\ eof' = (eof \/ o.err = "EOF")
    /\ upRecs' = (IF o.err = "nil" /\ ~IsBlank(o.line)
                  THEN Append(upRecs, o.line) ELSE upRecs)
    /\ idle' = (IF o.err = "nil" /\ ~IsBlank(o.line) THEN 0 ELSE idle)
    /\ UNCHANGED <<frontVars, mainPc, hbPc, out, clientGone, sigAvail,
                   connBroken, tphase, tickPending>>
    /\ CASE variant \in SyncVariants ->
              /\ UNCHANGED <<buffer, errChan>>
              /\ IF o.err # "nil"
                 THEN /\ lpPc' = "closed"
                      /\ HandlerReturns
                      /\ cur' = cur
                 ELSE /\ UNCHANGED <<hpc, bodyClosed, ctxDone>>
                      /\ IF Forwards(variant, o.line)
                         THEN /\ lpPc' = "write"
                              /\ cur' = WriteBytes(variant, o.line)
                         ELSE /\ lpPc' = "read"
                              /\ cur' = cur
         [] variant = "orHeartbeat" ->
              /\ UNCHANGED <<buffer, errChan>>
              /\ IF o.err = "other"
                 THEN /\ lpPc' = "closed"
                      /\ HandlerReturns
                      /\ cur' = cur
                 ELSE /\ UNCHANGED <<hpc, bodyClosed, ctxDone>>
                      /\ IF o.err = "nil" /\ Forwards(variant, o.line)
                         THEN /\ lpPc' = "write"
                              /\ cur' = WriteBytes(variant, o.line)
                         ELSE /\ lpPc' = "select"
                              /\ cur' = cur
         [] OTHER ->
              /\ UNCHANGED <<hpc, bodyClosed, ctxDone>>
              /\ IF o.err = "EOF"
                 THEN /\ lpPc' = "exit"
                      /\ errChan' = (IF errChan = "empty" THEN "closed"
                                     ELSE errChan)
                      /\ UNCHANGED <<buffer, cur>>
                 ELSE IF o.err = "other"
                 THEN /\ lpPc' = "exit"
                      /\ errChan' = "err"
                      /\ UNCHANGED <<buffer, cur>>
                 ELSE LET b == buffer \o o.line IN
                      /\ errChan' = errChan
                      /\ IF ~HasSuffix(b, <<NL, NL>>)
                         THEN /\ lpPc' = "read"
                              /\ buffer' = b
                              /\ cur' = cur
                         ELSE IF IsBlank(b)
                         THEN /\ lpPc' = "select"
                              /\ buffer' = b
                              /\ cur' = cur
                         ELSE /\ lpPc' = "write"
                              /\ buffer' = b
                              /\ cur' = b

\* Another goroutine is between the start of its Write and the end of its
\* Flush on the ResponseWriter.
HbInWrite == hbPc = "flush"
LoopInWrite == lpPc = "flush"

\* w.Write(cur) in the read loop, and what the loop does when it fails.
LoopWrite ==
    /\ lpPc = "write"
    /\ UNCHANGED <<frontVars, mainPc, hbPc, cur, buffer, upRecs, eof,
                   clientGone, sigAvail, connBroken, clockVars>>
    /\ IF connBroken
       THEN /\ out' = out
            /\ obs' = [obs EXCEPT !.writeFailed = TRUE]
            /\ CASE variant \in {"proxy", "part000", "orHeartbeat"} ->
                      /\ lpPc' = "closed"
                      /\ HandlerReturns
                      /\ errChan' = errChan
                 [] variant = "ollama" ->
                      /\ lpPc' = "flush"
                      /\ UNCHANGED <<hpc, bodyClosed, ctxDone, errChan>>
                 [] OTHER ->
                      /\ lpPc' = "exit"
                      /\ errChan' = "err"
                      /\ UNCHANGED <<hpc, bodyClosed, ctxDone>>
       ELSE /\ \E t \in (IF HbInWrite THEN BOOLEAN ELSE {FALSE}) :
                 out' = Append(out, Entry("data", cur, t))
            /\ lpPc' = "flush"
            /\ obs' = [obs EXCEPT
                          !.dataAfterGone =
                              IF clientGone /\ @ < 2 THEN @ + 1 ELSE @,
                          !.silentGapWrite =
                              @ \/ (obs.gapLong /\ ~obs.hbSinceData),
                          !.hbSinceData = FALSE,
                          !.dataInInterval = TRUE,
                          !.dataAfterHbFail = @ \/ obs.hbFailed,
                          !.overlap = @ \/ HbInWrite]
            /\ UNCHANGED <<hpc, bodyClosed, ctxDone, errChan>>

\* Mutation: the loop does not break on the done flag.
WroteDoneIgnored == FALSE

\* The record just written carried the Ollama done flag.
WroteDone == variant = "ollama" /\ cur = OllamaChunk(JsonDoneLine)

\* f.Flush() in the read loop, and the rest of the iteration.
LoopFlush ==
    /\ lpPc = "flush"
    /\ IF WroteDone
       THEN /\ lpPc' = "closed"
            /\ HandlerReturns
       ELSE /\ lpPc' = LoopTop
            /\ UNCHANGED <<hpc, bodyClosed, ctxDone>>
    /\ obs' = [obs EXCEPT !.held = 0]
    /\ UNCHANGED <<frontVars, mainPc, hbPc, cur, buffer, upRecs, out, eof,
                   clientGone, sigAvail, connBroken, errChan, clockVars>>

\* orReader: a case of the handler goroutine's select is ready.
MainReady ==
    /\ mainPc = "wait"
    /\ errChan # "empty" \/ sigAvail \/ ctxDone

\* orReader: the handler goroutine's select on errChan, clientGone, ctx.Done.
MainWait ==
    /\ variant = "orReader"
    /\ mainPc = "wait"
    /\ \/ /\ errChan # "empty"
          /\ sigAvail' = sigAvail
       \/ /\ sigAvail
          /\ sigAvail' = FALSE
       \/ /\ ctxDone
          /\ sigAvail' = sigAvail
    /\ mainPc' = "returned"
    /\ HandlerReturns
    /\ UNCHANGED <<frontVars, lpPc, hbPc, cur, buffer, upRecs, out, eof,
                   clientGone, connBroken, errChan, clockVars, obs>>

\* Mutation: the heartbeat is written without waiting for the ticker.
HbTakesTickUnasked == tickPending' = FALSE

\* case <-ticker.C: the heartbeat goroutine's select takes a delivered tick.
HbTakesTick ==
    /\ tickPending
    /\ tickPending' = FALSE

\* Mutation: the heartbeat goroutine returns without calling cancel().
HbWriteFailedNoCancel ==
    /\ ctxDone' = ctxDone
    /\ hbPc' = "exit"

\* The error branch of the heartbeat Write: cancel(); return.
HbWriteFailed ==
    /\ ctxDone' = TRUE
    /\ hbPc' = "exit"

\* orHeartbeat: the heartbeat goroutine takes a tick and writes the comment.
HbWrite ==
    /\ hbPc = "wait"
    /\ HbTakesTick
    /\ IF connBroken
       THEN /\ HbWriteFailed
            /\ out' = out
            /\ obs' = [obs EXCEPT !.hbFailed = TRUE]
       ELSE /\ \E t \in (IF LoopInWrite THEN BOOLEAN ELSE {FALSE}) :
                 out' = Append(out, Entry("hb", HeartbeatBytes, t))
            /\ hbPc' = "flush"
            /\ ctxDone' = ctxDone
            /\ obs' = [obs EXCEPT
                          !.hbSinceData = TRUE,
                          !.hbAfterData = @ \/ obs.dataInInterval,
                          !.dataInInterval = FALSE,
                          !.overlap = @ \/ LoopInWrite]
    /\ UNCHANGED <<frontVars, hpc, lpPc, mainPc, cur, buffer, upRecs, eof,
                   clientGone, sigAvail, connBroken, errChan, bodyClosed,
                   tphase, idle>>

\* f.Flush() in the heartbeat goroutine.
HbFlush ==
    /\ hbPc = "flush"
    /\ hbPc' = "wait"
    /\ UNCHANGED <<frontVars, hpc, lpPc, mainPc, cur, buffer, upRecs, out,
                   eof, ctxDone, clientGone, sigAvail, connBroken, errChan,
                   bodyClosed, clockVars, obs>>

\* Mutation: the heartbeat goroutine's select has no case <-ctx.Done().
HbIgnoresCancel == FALSE /\ UNCHANGED vars

\* case <-ctx.Done(): return (the deferred ticker.Stop() runs).
HbExit ==
    /\ hbPc = "wait"
    /\ ctxDone
    /\ hbPc' = "exit"
    /\ UNCHANGED <<frontVars, hpc, lpPc, mainPc, cur, buffer, upRecs, out,
                   eof, ctxDone, clientGone, sigAvail, connBroken, errChan,
                   bodyClosed, clockVars, obs>>

\* ------------------------------------------------------------- environment
\* The ticker of the heartbeat goroutine has been started and not stopped.
TickerRunning == hbPc \in {"wait", "flush"}

\* ClockStep seconds pass.  Time passes only while the read loop is blocked
\* in (or about to call) ReadBytes and no other goroutine has a step to take:
\* the goroutines' own steps take no time.
Tick ==
    /\ hpc = "streaming"
    /\ lpPc = "read"
    /\ hbPc # "flush"
    /\ ~(tickPending /\ hbPc = "wait")
    /\ ~MainReady
    /\ idle <= HeartbeatInterval \/ TickerRunning
    /\ idle' = (IF idle + ClockStep > HeartbeatInterval
                THEN HeartbeatInterval + 1 ELSE idle + ClockStep)
    /\ IF TickerRunning /\ tphase + ClockStep >= HeartbeatInterval
       THEN /\ HbCount(out) < MaxHeartbeats
            /\ tphase' = tphase + ClockStep - HeartbeatInterval
            /\ tickPending' = TRUE
            /\ obs' = [obs EXCEPT !.ticksFired = @ + 1,
                                  !.waitedAfterGone = @ \/ clientGone]
       ELSE /\ tphase' = (IF TickerRunning THEN tphase + ClockStep ELSE tphase)
            /\ tickPending' = tickPending
            /\ obs' = [obs EXCEPT !.waitedAfterGone = @ \/ clientGone]
    /\ UNCHANGED <<frontVars, hpc, lpPc, mainPc, hbPc, cur, buffer, upRecs,
                   out, eof, ctxDone, clientGone, sigAvail, connBroken,
                   errChan, bodyClosed>>

\* The client closes its connection: the transport's disconnect signal fires
\* (CloseNotify delivers its value); writes start failing now or later.
ClientDisconnect ==
    /\ hpc = "streaming"
    /\ ~clientGone
    /\ clientGone' = TRUE
    /\ sigAvail' = (variant \in CtxVariants)
    /\ connBroken' \in BOOLEAN
    /\ UNCHANGED <<frontVars, hpc, lpPc, mainPc, hbPc, cur, buffer, upRecs,
                   out, eof, ctxDone, errChan, bodyClosed, clockVars, obs>>

ConnBreak ==
    /\ hpc = "streaming"
    /\ clientGone
    /\ ~connBroken
    /\ connBroken' = TRUE
    /\ UNCHANGED <<frontVars, hpc, lpPc, mainPc, hbPc, cur, buffer, upRecs,
                   out, eof, ctxDone, clientGone, sigAvail, errChan,
                   bodyClosed, clockVars, obs>>

\* The connection serves its next request: nothing of the last one is kept.
NextRequest ==
    /\ hpc \in {"done", "panic"}
    /\ hpc' = "idle"
    /\ req' = NoReq /\ upReqs' = <<>> /\ resp' = NoResp
    /\ cstatus' = 0 /\ cbody' = NoBody /\ cheader' = NoHeader
    /\ lpPc' = "none" /\ mainPc' = "none" /\ hbPc' = "none"
    /\ cur' = <<>> /\ buffer' = <<>> /\ upRecs' = <<>> /\ out' = <<>>
    /\ eof' = FALSE /\ ctxDone' = FALSE
    /\ clientGone' = FALSE /\ sigAvail' = FALSE /\ connBroken' = FALSE
    /\ errChan' = "empty" /\ bodyClosed' = FALSE
    /\ tphase' = 0 /\ tickPending' = FALSE /\ idle' = 0
    /\ obs' = NoObs
    /\ UNCHANGED <<variant, activeConfig>>

Next ==
    \/ \E r \in Requests : ProxyHandler(r)
    \/ \E u \in UpstreamResults : ClientDoReturns(u)
    \/ LoopSelect
    \/ ReaderSelect
    \/ \E o \in ReadOutcomes : LoopRead(o)
    \/ LoopWrite
    \/ LoopFlush
    \/ MainWait
    \/ HbWrite
    \/ HbFlush
    \/ HbExit
    \/ Tick
    \/ ClientDisconnect
    \/ ConnBreak
    \/ NextRequest

Spec == Init /\ [][Next]_vars

\* Every goroutine of the relay keeps running while it has a step to take, and
\* a pending ReadBytes returns in the end: with a line, with io.EOF, or with
\* the error of the upstream client's Timeout (5 minutes).
FairSpec ==
    /\ Spec
    /\ WF_vars(LoopSelect)
    /\ WF_vars(\E o \in ReadOutcomes : LoopRead(o))
    /\ WF_vars(LoopWrite)
    /\ WF_vars(LoopFlush)

\* FairSpec, and the goroutines the relay started keep running while they
\* have a step to take: the heartbeat goroutine at its select and its Flush,
\* the reader goroutine at its select.
JoinSpec ==
    /\ FairSpec
    /\ WF_vars(HbExit)
    /\ WF_vars(HbFlush)
    /\ WF_vars(ReaderSelect)

\* The handler from the arrival of a request to its return or to the hand-over
\* to the streaming relay, over every payload.
TranslateNext ==
    \/ hpc = "idle" /\ \E r \in Requests \cup PayloadRequests : ProxyHandler(r)
    \/ \E u \in UpstreamResults \cup EncodedResults : ClientDoReturns(u)
    \/ NextRequest

TranslateSpec == Init /\ [][TranslateNext]_vars

\* -------------------------------------------------------------- properties
\* The variants whose loop passes each line it read to Write unchanged.
LineRelayVariants == {"part000", "orHeartbeat"}

\* The model ids handleModelsRequest lists: gpt4oModel (proxy.go); "gpt-4o"
\* and "deepseek-chat" (part_000); deepseekChatModel (first OpenRouter copy);
\* "gpt-4o" and deepseekChatModel (heartbeat copy); activeConfig.model
\* (Ollama copy).
ServedModels(v) ==
    CASE v = "proxy" -> {gpt4oModel}
      [] v = "part000" -> {gpt4oModel, "deepseek-chat"}
      [] v = "orReader" -> {"deepseek/deepseek-chat"}
      [] v = "orHeartbeat" -> {gpt4oModel, "deepseek/deepseek-chat"}
      [] OTHER -> {ollamaModel}

DataBytes(o) == [i \in 1..Len(DataEntries(o)) |-> DataEntries(o)[i].bytes]

Untorn(o) == \A i \in 1..Len(o) : ~o[i].torn

LastOut == out[Len(out)]

\* C1: the data records that reach the client are exactly the non-blank
\* upstream records, in upstream order, none dropped, none twice, each by one
\* Write whose bytes arrive as passed (at most the record in flight is
\* missing).
C1_RecordsRelayedExactly ==
    variant \in LineRelayVariants =>
        /\ Len(DataBytes(out)) <= Len(upRecs)
        /\ DataBytes(out) = SubSeq(upRecs, 1, Len(DataBytes(out)))
        /\ Len(upRecs) - Len(DataBytes(out)) <= 1
        /\ lpPc \in {"read", "select", "flush"} =>
               Len(DataBytes(out)) = Len(upRecs)
        /\ Untorn(DataEntries(out))

\* C2: when ReadBytes has returned io.EOF the relay has stopped reading and
\* returned, in every variant: the loop is left and ReadBytes is not called
\* again.
C2_EofStopsReading ==
    eof => /\ lpPc \in {"closed", "exit"}
           /\ ~obs.readAfterEof

\* C3: in the variants that listen for it, after the disconnect signal the
\* relay finishes at most the iteration
\* in progress (at most one more data record is written), returns without
\* waiting for the upstream, and the upstream body is closed on return.
C3_DisconnectStopsRelay ==
    (variant \in CtxVariants /\ clientGone) =>
        /\ obs.dataAfterGone <= 1
        /\ ~obs.waitedAfterGone
        /\ hpc = "done" => bodyClosed

\* C4: the heartbeat goroutine's Write+Flush and the read loop's Write+Flush
\* never overlap.
C4_WritesMutuallyExclusive == ~(HbInWrite /\ LoopInWrite)

\* C5: no data record is written after more than HeartbeatInterval seconds
\* of upstream silence unless a heartbeat was written since the last data
\* record.
C5_HeartbeatBeforeDataAfterSilence == ~obs.silentGapWrite

C7_HeartbeatFailureCancels ==
    /\ [](obs.hbFailed =>
            /\ ctxDone
            /\ ~obs.dataAfterHbFail
            /\ obs.readsAfterHbFail <= 1)
    /\ (obs.hbFailed ~> hpc = "done")

\* A heartbeat Write failed and the relay has returned.
C7_Witness ==
    /\ obs.hbFailed
    /\ hpc = "done"
    /\ lpPc = "closed"

C9_ErrorPassthrough ==
    (hpc \in {"streaming", "done", "panic"} /\ resp.kind = "resp"
        /\ resp.status >= StatusBadRequest) =>
        /\ cstatus = resp.status
        /\ cbody = [form |-> "raw", body |-> resp.body]

\* C10: an (authenticated) request whose body does not decode, or whose model
\* is not one the variant serves, is answered 400 and nothing is sent
\* upstream.
C10_InvalidRequestRejected ==
    (/\ hpc \in {"sent", "done", "panic"}
     /\ req # NoReq
     /\ variant \in AuthVariants => AuthOK(req)
     /\ ~req.decodable \/ req.model \notin ServedModels(variant)) =>
        /\ cstatus = StatusBadRequest
        /\ upReqs = <<>>


\* The model field of a body written to the client ("absent": none).
ClientModel(b) ==
    CASE b.form = "json" -> b.model
      [] b.form = "raw" -> b.body.model
      [] OTHER -> "absent"

\* C11: for every accepted non-streaming request answered from a completion
\* envelope, the model field returned to the client is the alias the client
\* sent, whatever model the upstream body carries.
C11_ModelAliasRoundTrip ==
    (/\ hpc \in {"done", "panic"}
     /\ req # NoReq /\ ~req.stream
     /\ resp.kind = "resp" /\ resp.status = StatusOK
     /\ resp.body.json /\ resp.body.model # "absent") =>
        /\ hpc = "done"
        /\ ClientModel(cbody) = req.model


\* C12: no message with role "function" is in a request sent upstream: every
\* client message with role "function" is sent with role "tool".
C12_NoFunctionRoleUpstream ==
    \A k \in 1..Len(upReqs) :
        LET sent == upReqs[k].messages IN
        /\ \A i \in 1..Len(sent) : sent[i].role # "function"
        /\ req # NoReq =>
              /\ Len(sent) = Len(req.messages)
              /\ \A i \in 1..Len(sent) :
                    req.messages[i].role = "function" => sent[i].role = "tool"


\* The tool calls of a body written to the client.
ClientToolCalls(b) ==
    CASE b.form = "json" -> b.tool_calls
      [] b.form = "raw" -> b.body.tool_calls
      [] OTHER -> <<>>

\* C13: a tool call whose function name is empty is in no request sent
\* upstream and in no translated non-streaming response written to the client.
C13_NoUnnamedToolCall ==
    /\ \A k \in 1..Len(upReqs) :
          \A i \in 1..Len(upReqs[k].messages) :
              \A j \in 1..Len(upReqs[k].messages[i].tool_calls) :
                  Named(upReqs[k].messages[i].tool_calls[j])
    /\ (/\ hpc = "done" /\ req # NoReq /\ ~req.stream
        /\ resp.kind = "resp" /\ resp.status = StatusOK) =>
            \A j \in 1..Len(ClientToolCalls(cbody)) :
                Named(ClientToolCalls(cbody)[j])


\* C14: two requests with the same non-empty tools that differ only in their
\* functions are sent upstream as identical requests.
C14_FunctionsIgnoredWithTools ==
    (req # NoReq /\ upReqs # <<>> /\ Len(req.tools) > 0) =>
        \A f \in FunctionLists :
            UpstreamRequest(variant, [req EXCEPT !.functions = f]) = upReqs[1]


\* C15: convertToolChoice follows this table for every tool_choice a request
\* carries and always returns: absent/null -> none; "auto" -> "auto"; "none"
\* -> "none"; an object whose type is "function" -> "auto"; every other value
\* -> none.  The converting variants send what it returned on a request with
\* tools.
C15_ConvertToolChoiceTable ==
    req # NoReq =>
        LET c == req.tool_choice
            got == convertToolChoice(c)
        IN /\ got \in {"", "auto", "none"}
           /\ c.kind \in {"absent", "null"} => got = ""
           /\ (c.kind = "string" /\ c.value = "auto") => got = "auto"
           /\ (c.kind = "string" /\ c.value = "none") => got = "none"
           /\ (c.kind = "object" /\ c.value = "function") => got = "auto"
           /\ (c.kind = "string" /\ c.value \notin {"auto", "none"}) => got = ""
           /\ (c.kind = "object" /\ c.value # "function") => got = ""
           /\ c.kind \in {"number", "list"} => got = ""
           /\ (variant \in ConvertVariants /\ HasTools(req) /\ upReqs # <<>>) =>
                 upReqs[1].tool_choice =
                    (IF got = "" THEN NoChoice ELSE StringChoice(got))

\* A structured function selection was sent upstream as "auto".
C15_Witness ==
    /\ hpc = "sent" /\ variant = "proxy"
    /\ req.tool_choice = [kind |-> "object", value |-> "function"]
    /\ upReqs[1].tool_choice = StringChoice("auto")

\* C16: tool_choice of every request sent upstream is absent, "auto" or
\* "none", never a structured object or any other value.
C16_UpstreamChoiceResolved ==
    \A k \in 1..Len(upReqs) :
        upReqs[k].tool_choice \in
            {NoChoice, StringChoice("auto"), StringChoice("none")}

\* C17 (as stated): a client tool_choice "auto" or "none" is the tool_choice
\* of the request sent upstream, for every accepted request.
C17_ChoicePassedThrough ==
    (/\ req # NoReq /\ upReqs # <<>>
     /\ req.tool_choice \in {StringChoice("auto"), StringChoice("none")}) =>
        upReqs[1].tool_choice = req.tool_choice

\* C17 (amended): a client tool_choice "auto" or "none" is sent upstream
\* unchanged by the converting variants when the request has tools or
\* functions, and always by the heartbeat variant; the converting variants
\* send no tool_choice for a request with neither, the Ollama variant never
\* sends one.
C17_ChoicePassedWithTools ==
    (/\ req # NoReq /\ upReqs # <<>>
     /\ req.tool_choice \in {StringChoice("auto"), StringChoice("none")}) =>
        upReqs[1].tool_choice =
            CASE variant \in ConvertVariants ->
                    IF Len(req.tools) > 0 \/ Len(req.functions) > 0
                    THEN req.tool_choice ELSE NoChoice
              [] variant = "orHeartbeat" -> req.tool_choice
              [] OTHER -> NoChoice

\* "none" went upstream with the tools of the request, and was dropped from a
\* request without any: the first of the two cases.
C17_Witness ==
    /\ hpc = "sent" /\ variant = "part000"
    /\ req.tool_choice = StringChoice("none")
    /\ Len(req.tools) > 0
    /\ upReqs[1].tool_choice = StringChoice("none")


\* C18: a request whose Authorization header is missing, is not a Bearer
\* credential or differs from the configured key is answered 401 and nothing
\* is sent upstream for it.
C18_UnauthorizedRejected ==
    (hpc \in {"sent", "done", "panic"} /\ req # NoReq /\ ~AuthOK(req)) =>
        /\ cstatus = StatusUnauthorized
        /\ upReqs = <<>>

\* C19: in the variants that validate the inbound key, the Authorization
\* value of an accepted request is not an Authorization value of the request
\* sent upstream for it.
C19_CredentialsDiffer ==
    (variant \in AuthVariants /\ req # NoReq /\ upReqs # <<>>) =>
        \A i \in 1..Len(upReqs[1].header["Authorization"]) :
            upReqs[1].header["Authorization"][i] # req.auth

Stripped == skipHeaders \cap HeaderNames

\* The values of a header.
Values(hd, h) == {hd[h][i] : i \in 1..Len(hd[h])}

\* C21: the request sent upstream carries no inbound value of
\* Content-Length, Content-Encoding, Transfer-Encoding or Connection, and the
\* response written to the client (regular, streaming or forwarded error)
\* carries no upstream value of them.
C21_HopHeadersStripped ==
    /\ (req # NoReq /\ upReqs # <<>>) =>
          \A h \in Stripped :
              Values(upReqs[1].header, h) \cap Values(ClientHeader(req), h) = {}
    /\ (hpc \in {"streaming", "done"} /\ resp.kind = "resp") =>
          \A h \in Stripped :
              Values(cheader, h) \cap Values(resp.header, h) = {}


\* C22 (as stated): a request without temperature (max_tokens) is sent
\* upstream without temperature (max_tokens).
C22_NoSilentDefault ==
    (req # NoReq /\ upReqs # <<>>) =>
        /\ req.temperature = Absent => upReqs[1].temperature = Absent
        /\ req.max_tokens = Absent => upReqs[1].max_tokens = Absent

\* C22 (amended): a request without temperature (max_tokens) is sent upstream
\* without temperature (max_tokens), except by the first OpenRouter variant,
\* which sends temperature 0.7 (max_tokens 4096) in its place.
C22_DefaultOnlyInOneVariant ==
    (req # NoReq /\ upReqs # <<>>) =>
        /\ req.temperature = Absent =>
              upReqs[1].temperature =
                 (IF variant = "orReader" THEN "0.7" ELSE Absent)
        /\ req.max_tokens = Absent =>
              upReqs[1].max_tokens =
                 (IF variant = "orReader" THEN "4096" ELSE Absent)

\* A request with max_tokens and without temperature went upstream with the
\* one and without the other.
C22_Witness ==
    /\ hpc = "sent" /\ variant = "proxy"
    /\ req.temperature = Absent /\ req.max_tokens = "100"
    /\ upReqs[1].temperature = Absent /\ upReqs[1].max_tokens = "100"


\* C23: a non-streaming upstream body with status < 400 that is not JSON, or
\* is JSON without a string model, is answered with status 500 and none of
\* the upstream bytes, and the handler returns.
C23_MalformedUpstreamIs500 ==
    (/\ hpc \in {"done", "panic"}
     /\ req # NoReq /\ ~req.stream
     /\ resp.kind = "resp" /\ resp.status < StatusBadRequest
     /\ ~resp.body.json \/ resp.body.model = "absent") =>
        /\ hpc = "done"
        /\ cstatus = StatusInternalServerError
        /\ cbody.form \in {"none", "local"}


\* C24: when the upstream cannot be reached the client is answered 502, in
\* every variant.
C24_UnreachableIs502 ==
    (hpc = "done" /\ resp.kind = "unreachable") => cstatus = StatusBadGateway


\* C25: at most one request is sent upstream for an inbound request; after a
\* failed upstream call nothing more is sent, and after a failed data Write
\* of the relay ReadBytes is not called again.
C25_FailureIsTerminal ==
    /\ Len(upReqs) <= 1
    /\ ~obs.readAfterWriteFail


\* The statuses the relay answers with on its own account.
LocalStatuses ==
    {StatusBadRequest, StatusUnauthorized, StatusInternalServerError,
     StatusBadGateway}

C27_ConvertMessagesIdempotent ==
    /\ req # NoReq =>
          convertMessages(convertMessages(req.messages))
              = convertMessages(req.messages)
    /\ (upReqs # <<>> /\ variant \in ConvertVariants) =>
          convertMessages(upReqs[1].messages) = upReqs[1].messages

\* A list with a function message and an assistant message whose tool call
\* has another type went upstream rewritten.
C27_Witness ==
    /\ hpc = "sent" /\ variant = "proxy"
    /\ Len(req.messages) = 2
    /\ req.messages[1].role = "assistant"
    /\ req.messages[1].tool_calls = <<callOddType>>
    /\ req.messages[2].role = "function"
    /\ upReqs[1].messages = convertMessages(req.messages)
    /\ upReqs[1].messages # req.messages


\* C28: a request with no tools and with functions goes upstream with one
\* tool for each function, in the same order, each of type "function" around
\* the unchanged function.
C28_FunctionsWrapped ==
    (/\ req # NoReq /\ upReqs # <<>>
     /\ Len(req.tools) = 0 /\ Len(req.functions) > 0) =>
        upReqs[1].tools =
            [i \in 1..Len(req.functions) |->
                [type |-> "function", function |-> req.functions[i]]]


\* C29: a model id is listed by GET /v1/models exactly if a chat-completion
\* request naming it (well-formed, and authenticated where the variant asks
\* for it) is accepted by the same variant, that is, sent upstream.
C29_ListedIffAccepted ==
    (/\ hpc \in {"sent", "done", "panic"}
     /\ req # NoReq /\ req.decodable
     /\ variant \in AuthVariants => AuthOK(req)) =>
        (req.model \in ServedModels(variant) <=> upReqs # <<>>)


\* C30: every data event written to the client begins with "data: " and ends
\* with a blank line, and when the upstream sent its final record and the
\* relay ended without a failed write or a disconnect, the last data event
\* written is data: [DONE].
C30_EventsFramedAndDone ==
    /\ \A i \in 1..Len(out) :
          IsData(out[i]) =>
              /\ HasPrefix(out[i].bytes, <<"data: ">>)
              /\ HasSuffix(out[i].bytes, <<NL, NL>>)
    /\ (/\ hpc = "done" /\ resp.kind = "resp" /\ resp.body = StreamBody
        /\ ~obs.writeFailed /\ ~clientGone /\ ~connBroken
        /\ upRecs # <<>>
        /\ upRecs[Len(upRecs)] \in {DoneLine, JsonDoneLine}) =>
          /\ DataEntries(out) # <<>>
          /\ HasPrefix(DataEntries(out)[Len(DataEntries(out))].bytes,
                       <<"data: ", "[DONE]">>)


C32_FlushedBeforeNextRead ==
    /\ obs.held <= 1
    /\ ~obs.readWhileHolding


\* C33: no Write of the relay loop carries a blank record, and the bytes of
\* the data writes are the non-blank upstream records, each as it was read,
\* in order.
C33_NonBlankVerbatim ==
    /\ \A i \in 1..Len(DataBytes(out)) : ~IsBlank(DataBytes(out)[i])
    /\ Len(DataBytes(out)) <= Len(upRecs)
    /\ DataBytes(out) = SubSeq(upRecs, 1, Len(DataBytes(out)))


\* The goroutines handleStreamingResponse started have returned: the
\* heartbeat goroutine, and the reader goroutine of the first OpenRouter
\* copy.
GoroutinesReturned ==
    /\ hbPc \in {"none", "exit"}
    /\ variant = "orReader" => lpPc \in {"none", "exit"}

\* C34: once the relay call has returned, every goroutine it started
\* returns in the end.
C34_GoroutinesJoin == (hpc = "done") ~> GoroutinesReturned

\* The read loop has returned and the heartbeat goroutine, whose own Write
\* never failed, has left through ctx.Done().
C34_Witness ==
    /\ variant = "orHeartbeat" /\ hpc = "done"
    /\ lpPc = "closed" /\ hbPc = "exit"
    /\ ~obs.hbFailed /\ ctxDone


\* C35: the tool calls of every assistant message sent upstream are the
\* client's, one for one and in order, with the same id, function name and
\* arguments, and with type "function".
C35_ToolCallsKeptTypeForced ==
    (req # NoReq /\ upReqs # <<>>) =>
        /\ Len(upReqs[1].messages) = Len(req.messages)
        /\ \A i \in 1..Len(req.messages) :
              req.messages[i].role = "assistant" =>
                  /\ Len(upReqs[1].messages[i].tool_calls)
                        = Len(req.messages[i].tool_calls)
                  /\ \A j \in 1..Len(req.messages[i].tool_calls) :
                        upReqs[1].messages[i].tool_calls[j] =
                            [req.messages[i].tool_calls[j]
                                EXCEPT !.type = "function"]


\* The ids of a list of tool calls.
Ids(calls) == [j \in 1..Len(calls) |-> calls[j].id]

\* C36: the tool calls of a translated non-streaming response are upstream
\* tool calls in upstream order, none of them twice: any two of them, in
\* their order, are two different upstream tool calls in that order.
C36_NoDuplicateToolCall ==
    (hpc = "done" /\ resp.kind = "resp" /\ cbody.form = "json") =>
        LET c == Ids(ClientToolCalls(cbody))
            u == Ids(resp.body.tool_calls)
        IN \A i, j \in 1..Len(c) :
              i < j => \E a, b \in 1..Len(u) :
                          a < b /\ u[a] = c[i] /\ u[b] = c[j]


\* C37: after the relay call has returned no goroutine it started writes to
\* the client connection or flushes it: no step taken after the return adds
\* a Write, completes a heartbeat Flush, or is the reader goroutine's Write
\* or Flush.
C37_NoWriteAfterReturn ==
    [][(hpc = "done" /\ hpc' = "done") =>
          /\ out' = out
          /\ ~(hbPc = "flush" /\ hbPc' # "flush")
          /\ variant = "orReader" =>
                ~(lpPc \in {"write", "flush"} /\ lpPc' # lpPc)]_vars


\* C38: when the last ReadBytes call returned io.EOF with bytes the relay
\* had read and not yet written (a last record without its newline, an event
\* without its blank line), the relay has written them, after every record
\* before them, once it has left that iteration.
C38_FinalRecordWritten ==
    (lpPc \in {"closed", "exit", "select"} /\ eof /\ ~IsBlank(obs.tail)
       /\ ~obs.writeFailed /\ ~clientGone) =>
        /\ DataEntries(out) # <<>>
        /\ LET last == DataEntries(out)[Len(DataEntries(out))].bytes IN
              \/ TrimSpace(last) = TrimSpace(obs.tail)
              \/ last = WriteBytes(variant, obs.tail \o <<NL>>)
        /\ Len(DataEntries(out)) > Len(SelectSeq(upRecs,
                                       LAMBDA l : Forwards(variant, l)))


\* C39: a temperature (max_tokens) the client sent is the temperature
\* (max_tokens) of the request sent upstream, 0 included.
C39_NumbersCarried ==
    (req # NoReq /\ upReqs # <<>>) =>
        /\ req.temperature # Absent =>
              upReqs[1].temperature = req.temperature
        /\ req.max_tokens # Absent =>
              upReqs[1].max_tokens = req.max_tokens


\* C40: the list convertMessages made for the upstream request has the length
\* and order of the client's list, with the content, tool_call_id and name
\* of every message and every role but "function" as the client sent them;
\* the handler's own list is still the client's.
C40_MessagesFramePreserved ==
    (req # NoReq /\ upReqs # <<>> /\ variant \in ConvertVariants) =>
        LET sent == upReqs[1].messages
            own == convertMessages(req.messages)
        IN /\ sent = own
           /\ Len(sent) = Len(req.messages)
           /\ \A i \in 1..Len(sent) :
                 /\ sent[i].content = req.messages[i].content
                 /\ sent[i].tool_call_id = req.messages[i].tool_call_id
                 /\ sent[i].name = req.messages[i].name
                 /\ req.messages[i].role # "function" =>
                       sent[i].role = req.messages[i].role
           /\ req \in Requests \cup PayloadRequests

\* A function message with its name and tool_call_id went upstream behind a
\* tool message.
C40_Witness ==
    /\ hpc = "sent" /\ variant = "orReader"
    /\ Len(req.messages) = 2
    /\ req.messages[1].role = "tool"
    /\ req.messages[2].role = "function"
    /\ req.messages[2].name = "f"
    /\ upReqs[1].messages[2].name = "f"
    /\ upReqs[1].messages[2].tool_call_id = "c1"
    /\ upReqs[1].messages[2].role = "tool"

====
